---- MODULE Spec2Model ----
(***************************************************************************)
(* Model of libdatabase.py: the local mirror (sqlite table "servers") of   *)
(* the online IP database, its synchronisation (IPDB_to_localDB) and the   *)
(* whitelisted attribute gateway (get_IP_attributes, set_IP_attributes,    *)
(* get_IP_list).                                                           *)
(*                                                                         *)
(* Text is modelled as a sequence of one-character strings, so that the    *)
(* string operations of the source (split, join, slicing, replace, str)    *)
(* are computed and not assumed.  Every stored value is represented by its *)
(* text form; Python booleans bound to a statement are stored as 1 / 0.    *)
(***************************************************************************)
EXTENDS Integers, Sequences, FiniteSets, TLC

(***************************************************************************)
(* Bounds of the model.                                                    *)
(***************************************************************************)
\* pages per category that the remote listing describes (later pages are empty)
MaxPages == 2
\* data rows in the whole remote listing
MaxTotalRows == 2
\* length of the attribute list and of the value list passed to the gateway
MaxAttrs == 2

(***************************************************************************)
(* Text helpers (Python str semantics).                                    *)
(***************************************************************************)
Empty == <<>>

\* s[n:]
DropFirst(s, n) == IF Len(s) <= n THEN <<>> ELSE SubSeq(s, n + 1, Len(s))

\* s[:-1]
DropLast(s) == IF Len(s) = 0 THEN <<>> ELSE SubSeq(s, 1, Len(s) - 1)

\* s[1::2]
EverySecondFromSecond(s) == [k \in 1..(Len(s) \div 2) |-> s[2 * k]]

\* s[::2]
EverySecond(s) == [k \in 1..((Len(s) + 1) \div 2) |-> s[2 * k - 1]]

\* s.split(c): the pieces between occurrences of c, empty pieces kept
RECURSIVE SplitOn(_, _)
SplitOn(s, c) ==
    IF s = <<>> THEN << <<>> >>
    ELSE LET rest == SplitOn(Tail(s), c)
         IN  IF Head(s) = c
             THEN << <<>> >> \o rest
             ELSE << <<Head(s)>> \o Head(rest) >> \o Tail(rest)

\* s.split(): the maximal runs of non-blank characters
Words(s) == SelectSeq(SplitOn(s, " "), LAMBDA w : w # <<>>)

\* ' '.join(ws)
RECURSIVE JoinSpace(_)
JoinSpace(ws) ==
    IF ws = <<>> THEN <<>>
    ELSE IF Len(ws) = 1 THEN ws[1]
    ELSE ws[1] \o <<" ">> \o JoinSpace(Tail(ws))

\* s.replace("'", "")
StripQuotes(s) == SelectSeq(s, LAMBDA ch : ch # "'")

Digit(d) == <<CASE d = 0 -> "0" [] d = 1 -> "1" [] d = 2 -> "2" [] d = 3 -> "3"
                [] d = 4 -> "4" [] d = 5 -> "5" [] d = 6 -> "6" [] d = 7 -> "7"
                [] d = 8 -> "8" [] OTHER -> "9">>

\* str(n) of a natural number
RECURSIVE StrNat(_)
StrNat(n) == IF n < 10 THEN Digit(n) ELSE StrNat(n \div 10) \o Digit(n % 10)

\* str(v) of a Python value: an int or a str
PyStr(v) == IF v.t = "int" THEN StrNat(v.n) ELSE v.s

\* a bool bound to a statement parameter is stored as the integer 1 or 0
SqlBool(b) == IF b THEN <<"1">> ELSE <<"0">>

(***************************************************************************)
(* Literals of the source.                                                 *)
(***************************************************************************)
Public == <<"P", "u", "b", "l", "i", "c">>
Private == <<"P", "r", "i", "v", "a", "t", "e">>
Secret == <<"S", "e", "c", "r", "e", "t">>
Yes == <<"Y", "e", "s">>
Gateway == <<"G", "a", "t", "e", "w", "a", "y">>
NA == <<"N", "/", "A">>
none == <<"n", "o", "n", "e">>

VALID_COLUMN_NAMES ==
    <<"ipAddress", "name", "type", "page", "admin", "minimum_protect", "owned",
      "running", "files", "cpu", "memory", "bandwidth", "lastlog", "lastupdated">>

exts == <<"pub", "priv", "sec">>

server_type(ext) ==
    IF ext = "pub" THEN Public ELSE IF ext = "priv" THEN Private ELSE Secret

Range(s) == {s[k] : k \in 1..Len(s)}

(***************************************************************************)
(* The remote listing.  A row (tr) of the listing table carries the link   *)
(* target of its first cell and the text of cells 5, 6 and 7.              *)
(***************************************************************************)
IPS == {<<"1">>, <<"2">>}

HrefPrefix == <<"x", "&", "y", "&", "c", "o", "n", "_", "i", "p", "=">>

Tr(ip, nameText, adminText, ownedText) ==
    [href |-> HrefPrefix \o ip, td5 |-> nameText, td6 |-> adminText, td7 |-> ownedText]

\* header, separator and footer rows of the table
Filler == [href |-> <<>>, td5 |-> <<>>, td6 |-> <<>>, td7 |-> <<>>]

\* the data rows the listing is made of
DataRows ==
    { Tr(<<"1">>, <<" ", "a", " ", " ", "b">>, Yes, <<"-">>),
      Tr(<<"2">>, <<"c">>, Yes \o <<" ">>, Gateway) }

\* the sequences over S of length 0..n
SeqUpTo(S, n) == UNION {[1..k -> S] : k \in 0..n}

\* the listing without data rows
EmptyListing == [ext \in Range(exts) |-> [k \in 1..MaxPages |-> <<>>]]

\* the listing l with the rows of pl added, each <<ext, k, tr>> at the end of
\* page k of category ext
RECURSIVE Place(_, _)
Place(l, pl) ==
    IF pl = <<>> THEN l
    ELSE LET h == Head(pl)
         IN  Place([l EXCEPT ![h[1]][h[2]] = Append(@, h[3])], Tail(pl))

\* a listing gives, per category, the data rows of pages 0..MaxPages-1
Listings ==
    {Place(EmptyListing, pl) :
        pl \in SeqUpTo(Range(exts) \X (1..MaxPages) \X DataRows, MaxTotalRows)}

\* the table of a page: header, then separator and data row alternating, footer
RECURSIVE Interleave(_)
Interleave(rows) ==
    IF rows = <<>> THEN <<>> ELSE <<Head(rows), Filler>> \o Interleave(Tail(rows))

TableOf(rows) == <<Filler, Filler>> \o Interleave(rows) \o <<Filler>>

\* get_page("index.php?action=ip_db&a2=" + ext + "&_o=" + str(offset)):
\* the page at that offset, in the layout of the session (connected or not)
get_page(l, ext, offset, connected) ==
    LET k == (offset \div 20) + 1
        rows == IF offset % 20 = 0 /\ k <= MaxPages THEN l[ext][k] ELSE <<>>
    IN  [marker |-> connected,
         table16 |-> IF connected THEN TableOf(rows) ELSE <<>>,
         table9_3 |-> IF connected THEN <<>> ELSE TableOf(rows)]

\* page.find_all("table")[..].find_all("tr")[::2][1:][:-1]
CandidateRows(table) == DropLast(DropFirst(EverySecond(table), 1))

SelectTrs(page) ==
    IF page.marker THEN CandidateRows(page.table16) ELSE CandidateRows(page.table9_3)

\* the four values extracted from a candidate row
ExtractOK(tr) == Len(SplitOn(tr.href, "&")) >= 3

Extract(tr) ==
    [ipAddress |-> DropFirst(SplitOn(tr.href, "&")[3], 7),
     name |-> JoinSpace(Words(tr.td5)),
     admin |-> (tr.td6 = Yes),
     owned |-> (tr.td7 = Gateway)]

(***************************************************************************)
(* The store: table servers, a sequence of rows in insertion order.        *)
(***************************************************************************)
\* ipAddress TEXT PRIMARY KEY
PrimaryKeyViolated(s) ==
    \E i, j \in 1..Len(s) : i # j /\ s[i].ipAddress = s[j].ipAddress

\* SELECT ... FROM servers WHERE ipAddress = ?
SqlSelect(s, ip) == SelectSeq(s, LAMBDA r : r.ipAddress = ip)

\* INSERT OR REPLACE INTO servers VALUES (...)
SqlInsertOrReplace(s, row) ==
    [err |-> FALSE,
     db |-> Append(SelectSeq(s, LAMBDA r : r.ipAddress # row.ipAddress), row)]

\* INSERT INTO servers VALUES (...)
SqlInsert(s, row) ==
    LET t == Append(s, row)
    IN  IF PrimaryKeyViolated(t) THEN [err |-> TRUE, db |-> s] ELSE [err |-> FALSE, db |-> t]

\* the row after SET c1 = v1, c2 = v2, ... (asg is a sequence of <<column, value>>)
RECURSIVE Assign(_, _)
Assign(r, asg) ==
    IF asg = <<>> THEN r
    ELSE Assign([r EXCEPT ![Head(asg)[1]] = Head(asg)[2]], Tail(asg))

\* SqlUpdate that creates the row when no row has the identifier
SqlUpdateOrInsert(s, asg, ip) ==
    LET t == IF \E k \in 1..Len(s) : s[k].ipAddress = ip
             THEN [k \in 1..Len(s) |-> IF s[k].ipAddress = ip THEN Assign(s[k], asg) ELSE s[k]]
             ELSE Append(s, Assign(
                     [ipAddress |-> ip, name |-> Empty, type |-> Empty, page |-> Empty,
                      admin |-> Empty, minimum_protect |-> Empty, owned |-> Empty,
                      running |-> Empty, files |-> Empty, cpu |-> Empty, memory |-> Empty,
                      bandwidth |-> Empty, lastlog |-> Empty, lastupdated |-> Empty], asg))
    IN  IF PrimaryKeyViolated(t) THEN [err |-> TRUE, db |-> s] ELSE [err |-> FALSE, db |-> t]

\* UPDATE servers SET ... WHERE ipAddress = ?
SqlUpdate(s, asg, ip) ==
    LET t == [k \in 1..Len(s) |-> IF s[k].ipAddress = ip THEN Assign(s[k], asg) ELSE s[k]]
    IN  IF PrimaryKeyViolated(t) THEN [err |-> TRUE, db |-> s] ELSE [err |-> FALSE, db |-> t]

\* InsertRow without the 'N/A' sentinel
InsertRowNoSentinel(rec, type, counter) ==
    [ipAddress |-> rec.ipAddress, name |-> rec.name, type |-> type, page |-> StrNat(counter),
     admin |-> SqlBool(rec.admin), minimum_protect |-> Empty, owned |-> SqlBool(rec.owned),
     running |-> Empty, files |-> Empty, cpu |-> Empty, memory |-> Empty,
     bandwidth |-> Empty, lastlog |-> Empty, lastupdated |-> Empty]

\* the row of line 116
InsertRow(rec, type, counter) ==
    [ipAddress |-> rec.ipAddress, name |-> rec.name, type |-> type, page |-> StrNat(counter),
     admin |-> SqlBool(rec.admin), minimum_protect |-> Empty, owned |-> SqlBool(rec.owned),
     running |-> Empty, files |-> Empty, cpu |-> Empty, memory |-> Empty,
     bandwidth |-> Empty, lastlog |-> Empty, lastupdated |-> NA]

\* UpdateAssignments taking the page counter after its increment
UpdateAssignmentsNextPage(rec, type, counter) ==
    << <<"name", rec.name>>, <<"type", type>>, <<"page", StrNat(counter + 1)>>,
       <<"admin", SqlBool(rec.admin)>>, <<"owned", SqlBool(rec.owned)>> >>

\* UpdateAssignments that also clears a column of the caller
UpdateAssignmentsReset(rec, type, counter) ==
    << <<"name", rec.name>>, <<"type", type>>, <<"page", StrNat(counter)>>,
       <<"admin", SqlBool(rec.admin)>>, <<"owned", SqlBool(rec.owned)>>,
       <<"running", Empty>> >>

\* the assignments of line 113
UpdateAssignments(rec, type, counter) ==
    << <<"name", rec.name>>, <<"type", type>>, <<"page", StrNat(counter)>>,
       <<"admin", SqlBool(rec.admin)>>, <<"owned", SqlBool(rec.owned)>> >>

(***************************************************************************)
(* State.                                                                  *)
(***************************************************************************)
VARIABLES
    store,      \* the rows of table servers of local.db, in insertion order
    remote,     \* the listing the online IP database serves
    run,        \* per invocation of IPDB_to_localDB: its position and locals
    result      \* the last call of a public operation and its outcome

vars == <<store, remote, run, result>>

\* the invocations of IPDB_to_localDB that may be in progress
Procs == {1, 2}

\* the locals of an invocation: the filter IP, the index e of the category in
\* exts, counter, moreIPs, the candidate rows trs of the fetched page, the
\* index i of the row the for loop is at and the outcome found of its lookup;
\* and, for the properties, the requests made so far (fetches), the store at
\* the call (store0), whether the call directly follows a full sync, and
\* whether another invocation was in progress at some time during this one
Idle ==
    [pc |-> "idle", IP |-> none, e |-> 1, counter |-> 0, moreIPs |-> TRUE,
     trs |-> <<>>, i |-> 1, found |-> FALSE, fetches |-> <<>>, store0 |-> <<>>,
     afterFull |-> FALSE, overlapped |-> FALSE]

\* the invocations after p has been called with the locals r: p overlaps the
\* invocations in progress, and they overlap p
Started(p, r) ==
    [q \in Procs |->
        IF q = p THEN [r EXCEPT !.overlapped = \E o \in Procs \ {p} : run[o].pc # "idle"]
        ELSE IF run[q].pc # "idle" THEN [run[q] EXCEPT !.overlapped = TRUE]
        ELSE run[q]]

NoCall ==
    [op |-> "none", IP |-> none, attributes |-> <<>>, values |-> <<>>,
     ret |-> "none", out |-> <<>>, printed |-> "", executed |-> FALSE,
     closed |-> FALSE]

SyncCall(IP, ret) == [NoCall EXCEPT !.op = "sync", !.IP = IP, !.ret = ret]

\* conn.close() (lines 121, 149, 159, 163, 189, 197): the call has closed the
\* connection it opened
Closing(call) == [call EXCEPT !.closed = TRUE]

AllIdle == \A p \in Procs : run[p].pc = "idle"

\* the last public operation was an unfiltered IPDB_to_localDB() that returned
LastWasFullSync == result.op = "sync" /\ result.IP = none /\ result.ret = "done"

Init ==
    /\ store = <<>>
    /\ remote \in Listings
    /\ run = [p \in Procs |-> Idle]
    /\ result = NoCall

(***************************************************************************)
(* IPDB_to_localDB(IP), one action per step of its loops.                  *)
(***************************************************************************)
\* line 86: "&_o=" + str(counter*20)
Offset(counter) == counter * 20

\* NoIPs that takes a page with one candidate row for the last one
NoIPsFewer(trs) == Len(trs) <= 1

\* line 95: no IPs on this page
NoIPs(trs) == Len(trs) = 0

\* NotWanted with the comparison inverted
NotWantedInverted(ipAddress, IP) == ipAddress = IP /\ IP # none

\* line 107: the IP is not wanted
NotWanted(ipAddress, IP) == ipAddress # IP /\ IP # none

\* SyncStart of a sync that rebuilds the table from scratch
SyncStartFresh(p, IP) ==
    /\ run[p].pc = "idle"
    /\ run' = Started(p, [Idle EXCEPT !.pc = "fetch", !.IP = IP, !.store0 = store,
                                      !.afterFull = LastWasFullSync])
    /\ result' = SyncCall(IP, "running")
    /\ store' = <<>>
    /\ UNCHANGED remote

\* lines 64-83: connect, first category, counter = 0, moreIPs = True
SyncStart(p, IP) ==
    /\ run[p].pc = "idle"
    /\ run' = Started(p, [Idle EXCEPT !.pc = "fetch", !.IP = IP, !.store0 = store,
                                      !.afterFull = LastWasFullSync])
    /\ result' = SyncCall(IP, "running")
    /\ UNCHANGED <<store, remote>>

\* lines 85-96: fetch the page at offset counter*20 and select its candidate rows
FetchPage(p, connected) ==
    /\ run[p].pc = "fetch"
    /\ LET r == run[p]
           offset == Offset(r.counter)
           page == get_page(remote, exts[r.e], offset, connected)
           trs == SelectTrs(page)
       IN  run' = [run EXCEPT ![p] =
                      [r EXCEPT !.pc = "rows", !.trs = trs, !.i = 1,
                                !.moreIPs = IF NoIPs(trs) THEN FALSE ELSE r.moreIPs,
                                !.fetches = Append(r.fetches, <<exts[r.e], offset>>)]]
    /\ UNCHANGED <<store, remote, result>>

\* AfterAbort of a connection in the default isolation level: the statements
\* of the run are an open transaction that is lost with the connection
AfterAbortRollback(s, s0) == s0

\* line 42, isolation_level=None: every statement is committed when it has
\* run, so a run that is aborted leaves the table as its statements made it
\* (s; s0 is the table at the call)
AfterAbort(s, s0) == s

\* the exception leaves IPDB_to_localDB: the invocation is over
Raise(p) ==
    /\ run' = [run EXCEPT ![p] = Idle]
    /\ result' = SyncCall(run[p].IP, "raised")
    /\ store' = AfterAbort(store, run[p].store0)

\* line 86: get_page raises (the request failed); nothing catches it
FetchFail(p) ==
    /\ run[p].pc = "fetch"
    /\ Raise(p)
    /\ UNCHANGED remote

\* lines 99-111: extract the next row, apply the filter, look the identifier up
Lookup(p) ==
    /\ run[p].pc = "rows"
    /\ run[p].i <= Len(run[p].trs)
    /\ LET r == run[p]
           tr == r.trs[r.i]
           rec == Extract(tr)
       IN  IF ~ExtractOK(tr)
           THEN Raise(p)
           ELSE IF NotWanted(rec.ipAddress, r.IP)
           THEN /\ run' = [run EXCEPT ![p] = [r EXCEPT !.i = r.i + 1]]
                /\ UNCHANGED <<store, result>>
           ELSE /\ run' = [run EXCEPT ![p] =
                              [r EXCEPT !.pc = "write",
                                        !.found = (Len(SqlSelect(store, rec.ipAddress)) # 0)]]
                /\ UNCHANGED <<store, result>>
    /\ UNCHANGED remote

\* Reconcile that inserts without regard to the lookup
ReconcileInsertOnly(s, found, rec, type, counter) ==
    SqlInsert(s, InsertRow(rec, type, counter))

\* Reconcile that leaves a row it finds as it is
ReconcileKeepFirst(s, found, rec, type, counter) ==
    IF found
    THEN [err |-> FALSE, db |-> s]
    ELSE SqlInsert(s, InsertRow(rec, type, counter))

\* lines 111-116: the statement chosen by the lookup
Reconcile(s, found, rec, type, counter) ==
    IF found
    THEN SqlUpdate(s, UpdateAssignments(rec, type, counter), rec.ipAddress)
    ELSE SqlInsert(s, InsertRow(rec, type, counter))

\* lines 113, 116: update the row in place or insert a new one
WriteRow(p) ==
    /\ run[p].pc = "write"
    /\ LET r == run[p]
           rec == Extract(r.trs[r.i])
           w == Reconcile(store, r.found, rec, server_type(exts[r.e]), r.counter)
       IN  IF w.err
           THEN Raise(p)
           ELSE /\ store' = w.db
                /\ run' = [run EXCEPT ![p] = [r EXCEPT !.pc = "rows", !.i = r.i + 1]]
                /\ UNCHANGED result
    /\ UNCHANGED remote

\* lines 118-119, 85, 71: count the page; next page, next category, or return
EndPage(p) ==
    /\ run[p].pc = "rows"
    /\ run[p].i > Len(run[p].trs)
    /\ LET r == run[p]
       IN  IF r.moreIPs
           THEN /\ run' = [run EXCEPT ![p] = [r EXCEPT !.pc = "fetch", !.counter = r.counter + 1]]
                /\ UNCHANGED result
           ELSE IF r.e < Len(exts)
           THEN /\ run' = [run EXCEPT ![p] =
                              [r EXCEPT !.pc = "fetch", !.e = r.e + 1, !.counter = 0,
                                        !.moreIPs = TRUE]]
                /\ UNCHANGED result
           ELSE /\ run' = [run EXCEPT ![p] = Idle]
                /\ result' = Closing(SyncCall(r.IP, "done"))
    /\ UNCHANGED <<store, remote>>

(***************************************************************************)
(* The attribute gateway.                                                  *)
(***************************************************************************)
\* a finished gateway call: its arguments, what it returned and printed,
\* whether it reached the cursor.execute on the rows (lines 155, 203, 225), and
\* its connection, not closed unless the path of the call says so (Closing)
Call(op, IP, attributes, values, ret, out, printed, executed) ==
    [op |-> op, IP |-> IP, attributes |-> attributes, values |-> values,
     ret |-> ret, out |-> out, printed |-> printed, executed |-> executed,
     closed |-> FALSE]

\* the columns of CREATE TABLE servers (line 45)
Columns ==
    {"ipAddress", "name", "type", "page", "admin", "minimum_protect", "owned",
     "running", "files", "cpu", "memory", "bandwidth", "lastlog", "lastupdated"}

\* the statement names a column list that is empty or has a name the table lacks
BadStatement(attributes) ==
    attributes = <<>> \/ \E k \in 1..Len(attributes) : attributes[k] \notin Columns

\* line 147, line 195
InWhitelist(attribute) == attribute \in Range(VALID_COLUMN_NAMES)

\* ArityMismatch that only rejects a value list that is too short
ArityTooFew(attributes, values) == Len(attributes) > Len(values)

\* line 187
ArityMismatch(attributes, values) == Len(attributes) # Len(values)

\* Whitelisted that checks the first name only
WhitelistedFirst(attributes) == attributes = <<>> \/ InWhitelist(attributes[1])

\* lines 146-147, 194-195: no name of the list is outside the whitelist
Whitelisted(attributes) == \A k \in 1..Len(attributes) : InWhitelist(attributes[k])

\* SELECT c1,c2,... : the values of the named columns of a row, in that order
Project(row, attributes) == [k \in 1..Len(attributes) |-> row[attributes[k]]]

\* lines 139-164
get_IP_attributes(IP, attributes) ==
    /\ AllIdle
    /\ result' =
          IF ~Whitelisted(attributes)
          THEN Closing(Call("get", IP, attributes, <<>>, "-1", <<>>,
                            "Invalid column name", FALSE))
          ELSE IF BadStatement(attributes)
          THEN \* "SELECT  FROM servers ..." does not compile: sqlite3.OperationalError
               Call("get", IP, attributes, <<>>, "raised", <<>>, "", TRUE)
          ELSE LET results == SqlSelect(store, IP)
               IN  IF Len(results) > 0
                   THEN Closing(Call("get", IP, attributes, <<>>, "tuple",
                                     Project(results[1], attributes), "", TRUE))
                   ELSE Closing(Call("get", IP, attributes, <<>>, "-1", <<>>,
                                     "Invalid IP address", TRUE))
    /\ UNCHANGED <<store, remote, run>>

\* line 200: the assignments composed into the statement
SetAssignments(attributes, values) ==
    [k \in 1..Len(attributes) |-> <<attributes[k], StripQuotes(PyStr(values[k]))>>]

\* lines 182-205
set_IP_attributes(IP, attributes, values) ==
    /\ AllIdle
    /\ IF ArityMismatch(attributes, values)
       THEN /\ result' = Closing(Call("set", IP, attributes, values, "-1", <<>>,
                                      "Attributes and values must be same length", FALSE))
            /\ UNCHANGED store
       ELSE IF ~Whitelisted(attributes)
       THEN /\ result' = Closing(Call("set", IP, attributes, values, "-1", <<>>,
                                      "Invalid column name", FALSE))
            /\ UNCHANGED store
       ELSE IF BadStatement(attributes)
       THEN \* "UPDATE servers SET  WHERE ..." does not compile: sqlite3.OperationalError
            /\ result' = Call("set", IP, attributes, values, "raised", <<>>, "", TRUE)
            /\ UNCHANGED store
       ELSE \* lines 203-205: execute and return 0, without conn.close()
            LET w == SqlUpdate(store, SetAssignments(attributes, values), IP)
            IN  /\ result' = Call("set", IP, attributes, values,
                                  IF w.err THEN "raised" ELSE "0", <<>>, "", TRUE)
                /\ store' = w.db
    /\ UNCHANGED <<remote, run>>

\* the orders in which a SELECT without ORDER BY may return the rows of s
Orders(s) ==
    {o \in [1..Len(s) -> 1..Len(s)] : \A i, j \in 1..Len(s) : i # j => o[i] # o[j]}

\* lines 219-232: no path of get_IP_list calls conn.close()
get_IP_list ==
    /\ AllIdle
    /\ \E o \in Orders(store) :
          result' = Call("list", none, <<>>, <<>>, "list",
                         [k \in 1..Len(store) |-> store[o[k]].ipAddress], "", TRUE)
    /\ UNCHANGED <<store, remote, run>>

(***************************************************************************)
(* Arguments of the calls.                                                 *)
(***************************************************************************)
\* Python values: a str (its characters) or an int
PyText(chars) == [t |-> "str", s |-> chars, n |-> 0]
PyInt(n) == [t |-> "int", s |-> <<>>, n |-> n]

\* the identifier filters of a sync: none (the default) or an identifier
Filters == IPS \cup {none}

\* values handed to set_IP_attributes
Vals == {PyText(<<"2", "'">>), PyInt(1), PyText(<<"'", "o", "n">>)}

\* field names handed to the gateway; the last one is outside the whitelist
AttrNames == {"ipAddress", "name", "running", "DROP TABLE"}

AttrLists == SeqUpTo(AttrNames, MaxAttrs)
ValLists == SeqUpTo(Vals, MaxAttrs)

\* the gateway calls made between syncs
BetweenSyncs ==
    { <<"running", PyText(<<"'", "o", "n">>)>>, <<"ipAddress", PyText(<<"2", "'">>)>> }

(***************************************************************************)
(* The program: one caller, one operation at a time.                       *)
(***************************************************************************)
Next ==
    \/ \E IP \in Filters : SyncStart(1, IP)
    \/ \E connected \in BOOLEAN : FetchPage(1, connected)
    \/ Lookup(1)
    \/ WriteRow(1)
    \/ EndPage(1)
    \/ \E IP \in IPS, a \in BetweenSyncs : set_IP_attributes(IP, <<a[1]>>, <<a[2]>>)
    \/ \E IP \in IPS : get_IP_attributes(IP, VALID_COLUMN_NAMES)
    \/ get_IP_list

Spec == Init /\ [][Next]_vars

(***************************************************************************)
(* The gateway alone: one call on a store that syncs and writes produced.  *)
(***************************************************************************)
\* rows of the stores the gateway is called on
MaxInitRows == 2

SyncedRows ==
    {InsertRow(Extract(tr), server_type(ext), 0) : tr \in DataRows, ext \in {"pub", "sec"}}

WrittenRows ==
    SyncedRows \cup {Assign(r, << <<"running", <<"o", "n">> >> >>) : r \in SyncedRows}

InitStores == {s \in SeqUpTo(WrittenRows, MaxInitRows) : ~PrimaryKeyViolated(s)}

InitGateway ==
    /\ store \in InitStores
    /\ remote = EmptyListing
    /\ run = [p \in Procs |-> Idle]
    /\ result = NoCall

NextGateway ==
    /\ result.op = "none"
    /\ \/ \E IP \in IPS, attributes \in AttrLists \cup {VALID_COLUMN_NAMES} :
             get_IP_attributes(IP, attributes)
       \/ \E IP \in IPS, attributes \in AttrLists, values \in ValLists :
             set_IP_attributes(IP, attributes, values)
       \/ get_IP_list

SpecGateway == InitGateway /\ [][NextGateway]_vars

(***************************************************************************)
(* The program with a page source whose requests may fail.                 *)
(***************************************************************************)
NextFaulty == Next \/ FetchFail(1)

SpecFaulty == Init /\ [][NextFaulty]_vars

(***************************************************************************)
(* Two callers: invocations of IPDB_to_localDB that nothing serialises,    *)
(* each with its own connection to local.db.                               *)
(***************************************************************************)
\* the listings with rows in the first category only
PublicListings ==
    {l \in Listings : \A k \in 1..MaxPages : l["priv"][k] = <<>> /\ l["sec"][k] = <<>>}

InitConcurrent ==
    /\ store = <<>>
    /\ remote \in PublicListings
    /\ run = [p \in Procs |-> Idle]
    /\ result = NoCall

NextConcurrent ==
    \E p \in Procs :
       \/ SyncStart(p, none)
       \/ \E connected \in BOOLEAN : FetchPage(p, connected)
       \/ Lookup(p)
       \/ WriteRow(p)
       \/ EndPage(p)

SpecConcurrent == InitConcurrent /\ [][NextConcurrent]_vars

(***************************************************************************)
(* The selection of the candidate rows, on any table.                      *)
(***************************************************************************)
\* rows of the tables the selection is applied to
MaxTableRows == 5

\* the tr lists find_all("tr") may return
Tables == SeqUpTo({Filler} \cup DataRows, MaxTableRows)

\* an invocation holds the tr list of the target table, before the slicing
InitRows ==
    /\ store = <<>>
    /\ remote = EmptyListing
    /\ \E table \in Tables :
          run = [p \in Procs |->
                   IF p = 1 THEN [Idle EXCEPT !.pc = "select", !.trs = table] ELSE Idle]
    /\ result = NoCall

\* lines 90-96: trs = ...find_all("tr")[::2][1:][:-1], and the test for no rows
SelectRows(p) ==
    /\ run[p].pc = "select"
    /\ LET r == run[p]
           trs == CandidateRows(r.trs)
       IN  run' = [run EXCEPT ![p] =
                      [r EXCEPT !.pc = "selected", !.trs = trs,
                                !.moreIPs = IF NoIPs(trs) THEN FALSE ELSE r.moreIPs]]
    /\ UNCHANGED <<store, remote, result>>

NextRows == SelectRows(1)

SpecRows == InitRows /\ [][NextRows]_vars

(***************************************************************************)
(* Syncs against a listing with a row that does not have the expected      *)
(* structure.                                                              *)
(***************************************************************************)
\* a row whose link target has no third "&" part: split("&")[2] raises IndexError
MalformedRow == [href |-> <<"x", "&", "y">>, td5 |-> <<"z">>, td6 |-> Yes, td7 |-> <<>>]

\* the listings with at least one such row
MalformedListings ==
    {Place(EmptyListing, pl) :
        pl \in SeqUpTo(Range(exts) \X (1..MaxPages) \X (DataRows \cup {MalformedRow}),
                       MaxTotalRows)} \ Listings

InitMalformed ==
    /\ store = <<>>
    /\ remote \in MalformedListings
    /\ run = [p \in Procs |-> Idle]
    /\ result = NoCall

NextMalformed ==
    \/ \E IP \in Filters : SyncStart(1, IP)
    \/ \E connected \in BOOLEAN : FetchPage(1, connected)
    \/ Lookup(1)
    \/ WriteRow(1)
    \/ EndPage(1)

SpecMalformed == InitMalformed /\ [][NextMalformed]_vars

(***************************************************************************)
(* Properties.                                                             *)
(***************************************************************************)
\* the invocation p has left the loops of all three categories and is about
\* to close the connection and return (line 121)
AtReturn(p) ==
    /\ run[p].pc = "rows"
    /\ run[p].i > Len(run[p].trs)
    /\ ~run[p].moreIPs
    /\ run[p].e = Len(exts)

\* C1: the store never holds two rows with the same ipAddress, and a write of
\* the sync for an identifier that already has a row leaves the number of rows
\* as it is and rewrites that row, at its place, with the observed values.
C1_Uniqueness ==
    [][ /\ \A i, j \in 1..Len(store') :
              store'[i].ipAddress = store'[j].ipAddress => i = j
        /\ \A p \in Procs :
              run[p].pc = "write" =>
                 LET r == run[p]
                     rec == Extract(r.trs[r.i])
                 IN  \A k \in 1..Len(store) :
                        store[k].ipAddress = rec.ipAddress =>
                           /\ Len(store') = Len(store)
                           /\ store'[k].ipAddress = rec.ipAddress
                           /\ store'[k].name = rec.name
                           /\ store'[k].type = server_type(exts[r.e])
                           /\ store'[k].page = StrNat(r.counter)
      ]_vars

\* an unfiltered sync has just rewritten, in the second category, a row that
\* existed when it started: the row has the new name and the store has not
\* grown by that write
C1_Witness ==
    /\ run[1].pc = "rows" /\ run[1].i = 2 /\ run[1].found
    /\ run[1].e = 2 /\ run[1].IP = none
    /\ \E k \in 1..Len(run[1].store0) :
          /\ store[k].ipAddress = Extract(run[1].trs[1]).ipAddress
          /\ store[k].name = Extract(run[1].trs[1]).name
          /\ store[k].type = Private
          /\ run[1].store0[k].name # store[k].name

\* C2: an unfiltered sync that started right after an unfiltered sync returned
\* (same listing, nothing in between) ends with the store it started with.
C2_Idempotence ==
    \A p \in Procs :
        AtReturn(p) /\ run[p].IP = none /\ run[p].afterFull => store = run[p].store0

\* the second of two consecutive unfiltered syncs is about to return, the
\* store holds two rows and one of them was seen on a second page
C2_Witness ==
    /\ AtReturn(1) /\ run[1].IP = none /\ run[1].afterFull
    /\ Len(store) = 2
    /\ \E k \in 1..2 : store[k].page = <<"1">>

\* C3: the fetches of a sync are, category after category in the order of
\* exts, the offsets 0, 20, ..., 20*N where N is the number of pages with
\* candidate rows before the first page without: never another request, and
\* all of them once the sync returns.
C3_Pagination ==
    LET N(ext) ==
            Cardinality({k \in 1..MaxPages : \A j \in 1..k : remote[ext][j] # <<>>})
        Requests(ext) == [k \in 1..(N(ext) + 1) |-> <<ext, 20 * (k - 1)>>]
        Expected == Requests("pub") \o Requests("priv") \o Requests("sec")
    IN  \A p \in Procs :
            run[p].pc # "idle" =>
               /\ Len(run[p].fetches) <= Len(Expected)
               /\ run[p].fetches = SubSeq(Expected, 1, Len(run[p].fetches))
               /\ AtReturn(p) => run[p].fetches = Expected

\* a sync returns after two fetches in a category with one page of rows
\* (N = 1), one fetch in a category whose rows lie behind an empty page
\* (N = 0) and one fetch in the third category
C3_Witness ==
    /\ AtReturn(1)
    /\ \E ext \in Range(exts) : remote[ext][1] # <<>> /\ remote[ext][2] = <<>>
    /\ \E ext \in Range(exts) : remote[ext][1] = <<>> /\ remote[ext][2] # <<>>
    /\ Len(run[1].fetches) = 4

\* C6: a sync filtered on X leaves every row whose ipAddress is not X as it
\* is, adds no row for another identifier, and returns with the store it
\* started with when X is on none of the pages it scanned.
C6_FilteredSync ==
    [][ \A p \in Procs :
           run[p].pc # "idle" /\ run[p].IP # none =>
              LET X == run[p].IP
                  seen == UNION { {Extract(tr).ipAddress :
                                     tr \in Range(SelectTrs(get_page(remote, f[1], f[2], TRUE)))} :
                                  f \in Range(run[p].fetches) }
              IN  /\ Len(store') >= Len(store)
                  /\ \A k \in 1..Len(store) :
                        store[k].ipAddress # X => store'[k] = store[k]
                  /\ \A k \in (Len(store) + 1)..Len(store') : store'[k].ipAddress = X
                  /\ AtReturn(p) /\ X \notin seen => store = run[p].store0
      ]_vars

\* a sync filtered on an identifier is about to return: it has created the row
\* of that identifier and no row for the other identifier of the listing
C6_Witness ==
    /\ AtReturn(1) /\ run[1].IP \in IPS
    /\ run[1].store0 = <<>>
    /\ Len(store) = 1 /\ store[1].ipAddress = run[1].IP
    /\ \E ext \in Range(exts), k \in 1..MaxPages :
          \E n \in 1..Len(remote[ext][k]) :
             Extract(remote[ext][k][n]).ipAddress # run[1].IP
    /\ Len(run[1].fetches) >= 4

\* C7: a write of the sync leaves ipAddress and the nine columns the sync does
\* not own of every existing row as they are, and a returning sync finds them
\* as they were when it started.
C7_SyncFrame ==
    [][ LET kept == {"ipAddress", "minimum_protect", "running", "files", "cpu", "memory",
                     "bandwidth", "lastlog", "lastupdated"}
        IN  \A p \in Procs :
               run[p].pc # "idle" =>
                  /\ Len(store') >= Len(store)
                  /\ \A k \in 1..Len(store), c \in kept : store'[k][c] = store[k][c]
                  /\ AtReturn(p) =>
                        \A k \in 1..Len(run[p].store0), c \in kept :
                           store[k][c] = run[p].store0[k][c]
      ]_vars

\* a sync has just rewritten a row whose running column a caller had set
C7_Witness ==
    /\ run[1].pc = "rows" /\ run[1].i = 2 /\ run[1].found
    /\ \E k \in 1..Len(store) :
          /\ store[k].ipAddress = Extract(run[1].trs[1]).ipAddress
          /\ store[k].running = <<"o", "n">>
          /\ store[k].type = server_type(exts[run[1].e])
          /\ run[1].store0[k].type # store[k].type

\* C8: a write of the sync for an identifier without a row appends one row:
\* the extracted identifier and name, the label of the category, the text of
\* the page counter, the two flags, lastupdated 'N/A' and the other seven
\* columns empty.
C8_CreationDefaults ==
    [][ \A p \in Procs :
           LET r == run[p]
               rec == Extract(r.trs[r.i])
           IN  run[p].pc = "write"
               /\ (\A k \in 1..Len(store) : store[k].ipAddress # rec.ipAddress)
               => store' = Append(store,
                     [ipAddress |-> rec.ipAddress, name |-> rec.name,
                      type |-> CASE r.e = 1 -> Public [] r.e = 2 -> Private [] OTHER -> Secret,
                      page |-> StrNat(r.counter),
                      admin |-> IF rec.admin THEN <<"1">> ELSE <<"0">>,
                      minimum_protect |-> <<>>,
                      owned |-> IF rec.owned THEN <<"1">> ELSE <<"0">>,
                      running |-> <<>>, files |-> <<>>, cpu |-> <<>>, memory |-> <<>>,
                      bandwidth |-> <<>>, lastlog |-> <<>>,
                      lastupdated |-> <<"N", "/", "A">>])
      ]_vars

\* a sync has just inserted a second row, on the second page of a category
C8_Witness ==
    /\ run[1].pc = "rows" /\ run[1].i = 2 /\ ~run[1].found
    /\ run[1].counter = 1
    /\ Len(store) = 2 /\ Len(run[1].store0) = 1
    /\ store[2].ipAddress = Extract(run[1].trs[1]).ipAddress
    /\ store[2].page = <<"1">> /\ store[2].lastupdated = NA

\* C4 (as stated): a call of get_IP_attributes or set_IP_attributes with a
\* name outside the whitelist fails with the InvalidField outcome, whatever the
\* length of the value list, before any statement on the rows and without a
\* change of the store.
C4_Original ==
    [][ (/\ result'.op \in {"get", "set"}
         /\ \E k \in 1..Len(result'.attributes) :
               result'.attributes[k] \notin Range(VALID_COLUMN_NAMES))
        => /\ store' = store
           /\ result'.ret = "-1"
           /\ result'.printed = "Invalid column name"
           /\ ~result'.executed
      ]_vars

\* C4 (amended): such a call returns -1 before any statement on the rows and
\* without a change of the store; the outcome is InvalidField, except for
\* set_IP_attributes with a value list of another length than the name list,
\* which fails with ArityMismatch.
C4_WhitelistEnforcement ==
    [][ (/\ result'.op \in {"get", "set"}
         /\ \E k \in 1..Len(result'.attributes) :
               result'.attributes[k] \notin Range(VALID_COLUMN_NAMES))
        => /\ store' = store
           /\ result'.ret = "-1"
           /\ result'.printed =
                 IF result'.op = "set" /\ Len(result'.attributes) # Len(result'.values)
                 THEN "Attributes and values must be same length"
                 ELSE "Invalid column name"
           /\ ~result'.executed
      ]_vars

\* set_IP_attributes was called for an existing row with a whitelisted name,
\* then a name outside the whitelist, and a value for each: InvalidField, and
\* the first column does not hold its value
C4_Witness ==
    /\ result.op = "set"
    /\ Len(result.attributes) = 2 /\ Len(result.values) = 2
    /\ result.attributes[1] = "running" /\ result.attributes[2] = "DROP TABLE"
    /\ result.ret = "-1" /\ result.printed = "Invalid column name"
    /\ \E k \in 1..Len(store) :
          /\ store[k].ipAddress = result.IP
          /\ store[k].running # StripQuotes(PyStr(result.values[1]))

\* C5: set_IP_attributes with a value list of another length than the name
\* list returns -1 with the ArityMismatch message, before any statement on
\* the rows, and the store is unchanged.
C5_ArityCheck ==
    [][ (result'.op = "set" /\ Len(result'.attributes) # Len(result'.values))
        => /\ store' = store
           /\ result'.ret = "-1"
           /\ result'.printed = "Attributes and values must be same length"
           /\ ~result'.executed
      ]_vars

\* set_IP_attributes was called for an existing row with two whitelisted
\* names and one value: ArityMismatch, and the first column does not hold the
\* value
C5_Witness ==
    /\ result.op = "set"
    /\ Len(result.attributes) = 2 /\ Len(result.values) = 1
    /\ \A k \in 1..2 : result.attributes[k] \in Range(VALID_COLUMN_NAMES)
    /\ result.ret = "-1"
    /\ result.printed = "Attributes and values must be same length"
    /\ \E k \in 1..Len(store) :
          /\ store[k].ipAddress = result.IP
          /\ store[k][result.attributes[1]] # StripQuotes(PyStr(result.values[1]))

\* C9: no step of a public operation changes the ipAddress of a row.
C9_IdentifierImmutable ==
    [][ /\ Len(store') >= Len(store)
        /\ \A k \in 1..Len(store) : store'[k].ipAddress = store[k].ipAddress
      ]_vars

\* C10: get_IP_attributes with whitelisted names leaves the store unchanged
\* and fails with NotFound when no row has the identifier; otherwise it returns
\* a tuple with, for each name in the order given, the value of that column.
C10_ReadContract ==
    [][ (/\ result'.op = "get"
         /\ \A k \in 1..Len(result'.attributes) :
               result'.attributes[k] \in Range(VALID_COLUMN_NAMES))
        => /\ store' = store
           /\ IF \A k \in 1..Len(store) : store[k].ipAddress # result'.IP
              THEN result'.ret = "-1" /\ result'.printed = "Invalid IP address"
              ELSE /\ result'.ret = "tuple"
                   /\ Len(result'.out) = Len(result'.attributes)
                   /\ \E k \in 1..Len(store) :
                         /\ store[k].ipAddress = result'.IP
                         /\ \A n \in 1..Len(result'.attributes) :
                               result'.out[n] = store[k][result'.attributes[n]]
      ]_vars

\* C11: set_IP_attributes with as many values as names, all names whitelisted,
\* sets every named column of the row of IP to the text of its value without
\* single quotes (the last value of a repeated name), and leaves the other
\* columns of that row, every other row and the number of rows as they are.
C11_WriteContract ==
    [][ (/\ result'.op = "set"
         /\ Len(result'.attributes) = Len(result'.values)
         /\ \A n \in 1..Len(result'.attributes) :
               result'.attributes[n] \in Range(VALID_COLUMN_NAMES))
        => /\ Len(store') = Len(store)
           /\ \A k \in 1..Len(store) :
                 IF store[k].ipAddress = result'.IP
                 THEN \A c \in Columns :
                         LET named == {n \in 1..Len(result'.attributes) :
                                          result'.attributes[n] = c}
                             last == CHOOSE n \in named : \A m \in named : m <= n
                         IN  store'[k][c] =
                                IF named = {} THEN store[k][c]
                                ELSE StripQuotes(PyStr(result'.values[last]))
                 ELSE store'[k] = store[k]
      ]_vars

\* C19: set_IP_attributes with a non-empty list of whitelisted names, a value
\* for each, and an identifier that no row has returns 0 and leaves the store
\* as it is; no call of the gateway changes the number of rows.
C19_AbsentWrite ==
    [][ /\ (/\ result'.op = "set"
            /\ result'.attributes # <<>>
            /\ Len(result'.attributes) = Len(result'.values)
            /\ \A n \in 1..Len(result'.attributes) :
                  result'.attributes[n] \in Range(VALID_COLUMN_NAMES)
            /\ \A k \in 1..Len(store) : store[k].ipAddress # result'.IP)
           => result'.ret = "0" /\ store' = store
        /\ result'.op \in {"get", "set", "list"} => Len(store') = Len(store)
      ]_vars

\* set_IP_attributes returned 0 for an identifier without a row: the store
\* has a row, none of them holds the value, and none has the identifier
C19_Witness ==
    /\ result.op = "set" /\ result.ret = "0" /\ result.executed
    /\ result.attributes = <<"running">>
    /\ Len(store) = 1
    /\ store[1].ipAddress # result.IP
    /\ store[1].running # StripQuotes(PyStr(result.values[1]))

\* C12: a call of a public operation that has returned (a sync that ran to
\* its end, a gateway call that returned a value) has closed the connection it
\* opened.
C12_ConnectionLifecycle ==
    result.ret \in {"done", "-1", "0", "tuple", "list"} => result.closed

\* lines 99-116 for the candidate rows trs of one page: the table s after the
\* rows that pass the filter IP have been written, in order
RECURSIVE RowsWritten(_, _, _, _, _)
RowsWritten(s, trs, IP, type, counter) ==
    IF trs = <<>> THEN s
    ELSE LET rec == Extract(Head(trs))
             found == Len(SqlSelect(s, rec.ipAddress)) # 0
             t == IF NotWanted(rec.ipAddress, IP) THEN s
                  ELSE Reconcile(s, found, rec, type, counter).db
         IN  RowsWritten(t, Tail(trs), IP, type, counter)

\* lines 85-119 for the pages of the requests fetches, in order
RECURSIVE PagesWritten(_, _, _, _)
PagesWritten(s, l, fetches, IP) ==
    IF fetches = <<>> THEN s
    ELSE LET f == Head(fetches)
             trs == SelectTrs(get_page(l, f[1], f[2], TRUE))
         IN  PagesWritten(RowsWritten(s, trs, IP, server_type(f[1]), f[2] \div 20),
                          l, Tail(fetches), IP)

\* the identifiers of the rows of s
Ids(s) == {s[k].ipAddress : k \in 1..Len(s)}

\* C13: when a fetch of a sync fails, the sync is over with the error handed
\* to its caller, and the store is the store of the call with the rows of
\* every page fetched before written to it: nothing of it is undone and
\* nothing else is written.
C13_FetchFailure ==
    [][ \A p \in Procs :
           run[p].pc = "fetch" /\ run'[p].pc = "idle" =>
              /\ run'[p] = Idle
              /\ result' = SyncCall(run[p].IP, "raised")
              /\ store' = store
              /\ store' = PagesWritten(run[p].store0, remote, run[p].fetches, run[p].IP)
      ]_vars

\* an unfiltered sync was aborted: the row it wrote in the first category is
\* there, with the label of that category, although the listing shows the
\* identifier again on the first page of the last category
C13_Witness ==
    /\ result = SyncCall(none, "raised")
    /\ \E k \in 1..Len(store) :
          /\ store[k].type = Public
          /\ \E n \in 1..Len(remote["sec"][1]) :
                Extract(remote["sec"][1][n]).ipAddress = store[k].ipAddress

\* C14: while a sync is in progress, and when it ends (returning or aborted),
\* every identifier the store held at the call still has a row.
C14_NeverDeleted ==
    [][ \A p \in Procs :
           run[p].pc # "idle" =>
              /\ Ids(run[p].store0) \subseteq Ids(store')
              /\ Ids(store) \subseteq Ids(store')
      ]_vars

\* a sync was aborted after it had added a row to a store that holds a row
\* whose identifier is on no page of the listing
C14_Witness ==
    /\ result.op = "sync" /\ result.ret = "raised"
    /\ Len(store) = 2
    /\ \E k \in 1..2 :
          \A ext \in Range(exts), j \in 1..MaxPages :
             \A n \in 1..Len(remote[ext][j]) :
                Extract(remote[ext][j][n]).ipAddress # store[k].ipAddress

\* C15: when the extraction of a row of a page fails, the sync is aborted and
\* the store is the store of the call with the rows of the pages fetched before
\* that page written to it: no row of the page itself has been written.
C15_ExtractionFirst ==
    [][ \A p \in Procs :
           run[p].pc = "rows" /\ run'[p].pc = "idle" /\ result'.ret = "raised" =>
              store' = PagesWritten(run[p].store0, remote,
                                    SubSeq(run[p].fetches, 1, Len(run[p].fetches) - 1),
                                    run[p].IP)
      ]_vars

\* C16: a sync requests the categories in the order Public, Private, Secret
\* and starts each at offset 0; when an unfiltered sync returns, the row of
\* every identifier it saw has the label of the last category in which it saw
\* the identifier, and as page the text of the zero-based number of the last
\* page of that category on which it saw it.
C16_Reaffirmation ==
    LET Scanned(ext) == {k \in 1..MaxPages : \A j \in 1..k : remote[ext][j] # <<>>}
        On(ip, ext, k) ==
            \E n \in 1..Len(remote[ext][k]) : Extract(remote[ext][k][n]).ipAddress = ip
        Seen(ip) == {e \in 1..3 : \E k \in Scanned(exts[e]) : On(ip, exts[e], k)}
        Last(S) == CHOOSE x \in S : \A y \in S : y <= x
        Label(e) == CASE e = 1 -> Public [] e = 2 -> Private [] OTHER -> Secret
        Cat(ext) == CASE ext = "pub" -> 1 [] ext = "priv" -> 2 [] OTHER -> 3
    IN  \A p \in Procs :
           /\ run[p].pc # "idle" =>
                 \A i \in 1..Len(run[p].fetches) :
                    LET f == run[p].fetches
                    IN  IF i = 1 THEN f[i] = <<"pub", 0>>
                        ELSE \/ Cat(f[i][1]) = Cat(f[i - 1][1]) /\ f[i][2] = f[i - 1][2] + 20
                             \/ Cat(f[i][1]) = Cat(f[i - 1][1]) + 1 /\ f[i][2] = 0
           /\ AtReturn(p) /\ run[p].IP = none =>
                 \A ip \in IPS :
                    Seen(ip) # {} =>
                       \E k \in 1..Len(store) :
                          /\ store[k].ipAddress = ip
                          /\ store[k].type = Label(Last(Seen(ip)))
                          /\ store[k].page =
                                StrNat(Last({j \in Scanned(exts[Last(Seen(ip))]) :
                                                On(ip, exts[Last(Seen(ip))], j)}) - 1)

\* an unfiltered sync is about to return; it found a row labelled Public with
\* page 0 (left by a sync that was aborted) for an identifier that it saw last
\* on the first Private page, and the row now says Private, page 0
C16_Witness ==
    /\ AtReturn(1) /\ run[1].IP = none
    /\ Len(run[1].store0) = 1 /\ Len(store) = 1
    /\ run[1].store0[1].type = Public /\ run[1].store0[1].page = <<"0">>
    /\ store[1].type = Private /\ store[1].page = <<"0">>
    /\ store[1].ipAddress = run[1].store0[1].ipAddress

\* C17 (as stated): of the rows r[0..n-1] of the table, the candidate rows are
\* the odd-indexed ones r[1], r[3], ... without the first and the last of
\* them, in table order; there is none, and the pagination ends, exactly when
\* that subsequence has two rows or fewer.
C17_Original ==
    [][ \A p \in Procs :
           run[p].pc = "select" /\ run'[p].pc = "selected" =>
              LET r == run[p].trs
                  m == Len(r) \div 2
                  sub == [k \in 1..m |-> r[2 * k]]
              IN  /\ run'[p].trs = [k \in 1..(IF m > 2 THEN m - 2 ELSE 0) |-> sub[k + 1]]
                  /\ (run'[p].trs = <<>>) = (m <= 2)
                  /\ run'[p].moreIPs = (m > 2)
      ]_vars

\* C17 (amended): the candidate rows are every second row starting with the
\* first, r[0], r[2], r[4], ..., without the first and the last of them, in
\* table order; there is none, and the pagination ends, exactly when that
\* subsequence has two rows or fewer.
C17_CandidateRows ==
    [][ \A p \in Procs :
           run[p].pc = "select" /\ run'[p].pc = "selected" =>
              LET r == run[p].trs
                  m == (Len(r) + 1) \div 2
                  sub == [k \in 1..m |-> r[2 * k - 1]]
              IN  /\ run'[p].trs = [k \in 1..(IF m > 2 THEN m - 2 ELSE 0) |-> sub[k + 1]]
                  /\ (run'[p].trs = <<>>) = (m <= 2)
                  /\ run'[p].moreIPs = (m > 2)
      ]_vars

\* the selection has kept one row of a table, a row with an identifier
C17_Witness ==
    /\ run[1].pc = "selected"
    /\ Len(run[1].trs) = 1
    /\ ExtractOK(run[1].trs[1])
    /\ run[1].moreIPs

\* C18: an invocation about to insert (its lookup found no row) while the
\* identifier has a row by now fails, and the row stays as it is; a write of an
\* invocation fails in this way only, and only in an invocation that another
\* invocation overlapped: never when the invocations are serialised.
C18_ConcurrentSync ==
    [][ \A p \in Procs :
           run[p].pc = "write" /\ run'[p] # run[p] =>
              LET rec == Extract(run[p].trs[run[p].i])
                  stale == ~run[p].found /\ rec.ipAddress \in Ids(store)
                  fails == /\ run'[p].pc = "idle"
                           /\ result' = SyncCall(run[p].IP, "raised")
                           /\ store' = store
              IN  /\ stale => fails
                  /\ run'[p].pc = "idle" => stale /\ run[p].overlapped
      ]_vars

\* both invocations had passed the lookup for the first row of a page without
\* finding a row; one has inserted it and goes on, the other has failed
C18_Witness ==
    /\ result = SyncCall(none, "raised")
    /\ \E p, q \in Procs :
          /\ run[p].pc = "idle"
          /\ run[q].pc = "rows" /\ run[q].i = 2 /\ ~run[q].found /\ run[q].overlapped
          /\ run[q].store0 = <<>> /\ Len(store) = 1
          /\ store[1].ipAddress = Extract(run[q].trs[1]).ipAddress

====
